---- MODULE Spec2Model ----
(***************************************************************************)
(* Model of pkg/api/server.go: the HTTP handlers that create applications, *)
(* create deploys, read applications and roll an application back to an    *)
(* earlier deploy, over a Store and a ModCacher.  Every handler is a       *)
(* sequence of Store/Cache calls; concurrent requests interleave between   *)
(* those calls, so each call is one atomic step of the handler.            *)
(***************************************************************************)
EXTENDS Integers, FiniteSets, Sequences, TLC

\* ---------------------------------------------------------------- bounds
NumHandlers == 2        \* request handlers running concurrently
MaxApps == 2            \* application ids uuid.New can hand out
MaxDeploys == 2         \* deploy ids uuid.New can hand out
MaxBlob == 1            \* distinct deploy payloads

\* ------------------------------------------------------ program constants
MinNameLen == 3
MaxNameLen == 20
StatusOK == 200
StatusBadRequest == 400
StatusNotFound == 404
StatusUnprocessableEntity == 422

\* ------------------------------------------------------------ value sets
NoID == 0                               \* uuid.Nil: an unset id
BadID == -1                             \* a string uuid.Parse / the JSON decoder rejects
Handlers == 1..NumHandlers
AppIDs == 1..MaxApps
DeployIDs == 1..MaxDeploys
Blobs == 1..MaxBlob
ReadErr == 0                            \* io.ReadAll failed
NameLens == {MinNameLen - 1, MinNameLen, MaxNameLen + 1}

VARIABLES
    apps,           \* Store: application id -> Application
    deploys,        \* Store: deploy id -> Deploy
    cache,          \* ModCacher: the deploy ids that have a cached module
    req,            \* per handler: the request it serves and its locals
    resp,           \* the response the last step wrote, with the request it answers
    lastWrite       \* history: per application, the id the last linearized update was asked for

vars == <<apps, deploys, cache, req, resp, lastWrite>>

\* A handler that serves no request.
IdleReq ==
    [kind |-> "none", pc |-> "idle", appID |-> NoID, arg |-> NoID,
     cur |-> NoID, deploy |-> NoID, wrote |-> FALSE, deposed |-> NoID]

\* No response was written by the last step.
NoResp ==
    [kind |-> "none", at |-> "idle", appID |-> NoID, arg |-> NoID, cur |-> NoID,
     deploy |-> NoID, wrote |-> FALSE, deposed |-> NoID, failed |-> FALSE,
     status |-> 0, body |-> NoID, evicted |-> {}, lost |-> FALSE]

\* ------------------------------------------------------------------ types
\* uuid.New(): an id no Application / Deploy has yet.
FreshID(ids, used) == CHOOSE id \in ids \ used : \A other \in ids \ used : id <= other

NewApplication(id, nameLen) ==
    [ID |-> id, Name |-> nameLen, Endpoint |-> <<"wasm", id>>, ActiveDeployID |-> NoID]

NewDeploy(id, app, blob) ==
    [ID |-> id, AppID |-> app.ID, Blob |-> blob]

\* ------------------------------------------------------------------ Store
\* Every Store call may fail (fail = TRUE) besides its specific condition.
GetApplicationErr(id, fail) == fail \/ id \notin DOMAIN apps

GetDeployErr(id, fail) == fail \/ id \notin DOMAIN deploys

CreateApplicationErr(app, fail) == fail \/ app.ID \in DOMAIN apps

CreateDeployErr(deploy, fail) == fail \/ deploy.ID \in DOMAIN deploys

UpdateApplicationErr(id, fail) == fail \/ id \notin DOMAIN apps

Put(f, k, v) == [x \in DOMAIN f \cup {k} |-> IF x = k THEN v ELSE f[x]]

CreateApplication(app) == Put(apps, app.ID, app)

CreateDeploy(deploy) == Put(deploys, deploy.ID, deploy)

\* An update that takes the id the application already has as active for a request
\* to clear it.
UpdateApplication_Toggles(id, activeDeployID) ==
    [apps EXCEPT ![id].ActiveDeployID =
        IF apps[id].ActiveDeployID = activeDeployID THEN NoID ELSE activeDeployID]

UpdateApplication(id, activeDeployID) ==
    [apps EXCEPT ![id].ActiveDeployID = activeDeployID]

\* ------------------------------------------------------------------ Cache
\* Delete returns nothing: an eviction that fails (ok = FALSE) leaves the entry
\* and is not seen by the caller.
CacheDelete(id, ok) == IF ok THEN cache \ {id} ELSE cache

\* ------------------------------------------------------- request plumbing
Idle(h) == req[h].pc = "idle"

\* writeJSON(w, status, body): the handler returns.  The response is recorded with
\* the request it answers: the step the handler was at, its locals (with the
\* history field deposed: the id its own pointer update replaced), the ids it
\* passed to cache.Delete, whether a Store call failed for no reason of the
\* request's own, and (lost) whether a cache.Delete it made evicted nothing
\* although the entry was there.
Respond(r, status, body, evicted, failed) ==
    [kind |-> r.kind, at |-> r.pc, appID |-> r.appID, arg |-> r.arg, cur |-> r.cur,
     deploy |-> r.deploy, wrote |-> r.wrote, deposed |-> r.deposed, failed |-> failed,
     status |-> status, body |-> body, evicted |-> evicted, lost |-> FALSE]

validate(nameLen) == ~(nameLen < MinNameLen \/ nameLen > MaxNameLen)

Init ==
    /\ apps = <<>>
    /\ deploys = <<>>
    /\ cache = {}
    /\ req = [h \in Handlers |-> IdleReq]
    /\ resp = NoResp
    /\ lastWrite = [a \in AppIDs |-> NoID]

\* ---------------------------------------------------------- handleCreateApp
handleCreateApp(h) ==
    /\ Idle(h)
    /\ Cardinality(DOMAIN apps) < MaxApps
    /\ \E nameLen \in NameLens \cup {BadID} :
         LET r == [IdleReq EXCEPT !.kind = "createApp", !.arg = nameLen]
             app == NewApplication(FreshID(AppIDs, DOMAIN apps), nameLen)
         IN  IF nameLen = BadID
             THEN /\ resp' = Respond(r, StatusBadRequest, NoID, {}, FALSE)
                  /\ UNCHANGED apps
             ELSE IF ~validate(nameLen)
             THEN /\ resp' = Respond(r, StatusBadRequest, NoID, {}, FALSE)
                  /\ UNCHANGED apps
             ELSE \E fail \in BOOLEAN :
                  IF CreateApplicationErr(app, fail)
                  THEN /\ resp' = Respond(r, StatusBadRequest, NoID, {}, fail)
                       /\ UNCHANGED apps
                  ELSE /\ apps' = CreateApplication(app)
                       /\ resp' = Respond([r EXCEPT !.appID = app.ID], StatusOK, app.ID,
                                          {}, FALSE)
    /\ UNCHANGED <<deploys, cache, req, lastWrite>>

\* ----------------------------------------------------- handleGetApplication
\* What handleGetApplication answers a request for application id.
GetApplicationResponse(id, fail) ==
    LET r == [IdleReq EXCEPT !.kind = "getApp", !.appID = id]
    IN  IF id = BadID
        THEN Respond(r, StatusBadRequest, NoID, {}, FALSE)
        ELSE IF GetApplicationErr(id, fail)
        THEN Respond(r, StatusNotFound, NoID, {}, fail)
        ELSE Respond(r, StatusOK, apps[id].ActiveDeployID, {}, FALSE)

handleGetApplication(h) ==
    /\ Idle(h)
    /\ \E id \in AppIDs \cup {BadID}, fail \in BOOLEAN :
         resp' = GetApplicationResponse(id, fail)
    /\ UNCHANGED <<apps, deploys, cache, req, lastWrite>>

\* ------------------------------------------------------- handleCreateDeploy
\* uuid.Parse, store.GetApplication, io.ReadAll
CreateDeployBegin(h) ==
    /\ Idle(h)
    /\ Cardinality(DOMAIN deploys)
         + Cardinality({g \in Handlers : req[g].pc = "persist"}) < MaxDeploys
    /\ \E id \in AppIDs \cup {BadID} :
         LET r == [IdleReq EXCEPT !.kind = "createDeploy", !.appID = id]
         IN  IF id = BadID
             THEN /\ resp' = Respond(r, StatusBadRequest, NoID, {}, FALSE)
                  /\ UNCHANGED req
             ELSE \E fail \in BOOLEAN :
                  IF GetApplicationErr(id, fail)
                  THEN /\ resp' = Respond(r, StatusNotFound, NoID, {}, fail)
                       /\ UNCHANGED req
                  ELSE \E blob \in Blobs \cup {ReadErr} :
                       IF blob = ReadErr
                       THEN /\ resp' = Respond(r, StatusNotFound, NoID, {}, FALSE)
                            /\ UNCHANGED req
                       ELSE /\ req' = [req EXCEPT ![h] =
                                          [r EXCEPT !.pc = "persist", !.arg = blob]]
                            /\ resp' = NoResp
    /\ UNCHANGED <<apps, deploys, cache, lastWrite>>

\* CreateDeployPersist that makes the new Deploy the active one as it persists
\* it, before the pointer update of the handler.
CreateDeployPersist_ActivatesEarly(h) ==
    /\ req[h].pc = "persist"
    /\ \E fail \in BOOLEAN :
         LET r == req[h]
             deploy == NewDeploy(FreshID(DeployIDs, DOMAIN deploys), [ID |-> r.appID], r.arg)
         IN  IF CreateDeployErr(deploy, fail)
             THEN /\ resp' = Respond(r, StatusUnprocessableEntity, NoID, {}, fail)
                  /\ req' = [req EXCEPT ![h] = IdleReq]
                  /\ UNCHANGED <<deploys, apps>>
             ELSE /\ deploys' = CreateDeploy(deploy)
                  /\ apps' = UpdateApplication(r.appID, deploy.ID)
                  /\ req' = [req EXCEPT ![h] = [r EXCEPT !.pc = "activate", !.deploy = deploy.ID]]
                  /\ resp' = NoResp
    /\ UNCHANGED <<cache, lastWrite>>

\* types.NewDeploy, store.CreateDeploy
CreateDeployPersist(h) ==
    /\ req[h].pc = "persist"
    /\ \E fail \in BOOLEAN :
         LET r == req[h]
             deploy == NewDeploy(FreshID(DeployIDs, DOMAIN deploys), [ID |-> r.appID], r.arg)
         IN  IF CreateDeployErr(deploy, fail)
             THEN /\ resp' = Respond(r, StatusUnprocessableEntity, NoID, {}, fail)
                  /\ req' = [req EXCEPT ![h] = IdleReq]
                  /\ UNCHANGED deploys
             ELSE /\ deploys' = CreateDeploy(deploy)
                  /\ req' = [req EXCEPT ![h] = [r EXCEPT !.pc = "activate", !.deploy = deploy.ID]]
                  /\ resp' = NoResp
    /\ UNCHANGED <<apps, cache, lastWrite>>

\* CreateDeployUpdate with the error of store.UpdateApplication dropped: the
\* handler answers 200 with the deploy whether or not the pointer was updated.
CreateDeployUpdate_IgnoresErr(h) ==
    /\ req[h].pc = "activate"
    /\ \E fail \in BOOLEAN :
         LET r == req[h]
         IN  IF UpdateApplicationErr(r.appID, fail)
             THEN /\ resp' = Respond(r, StatusOK, r.deploy, {}, fail)
                  /\ req' = [req EXCEPT ![h] = IdleReq]
                  /\ UNCHANGED <<apps, lastWrite>>
             ELSE /\ apps' = UpdateApplication(r.appID, r.deploy)
                  /\ lastWrite' = [lastWrite EXCEPT ![r.appID] = r.deploy]
                  /\ resp' = Respond([r EXCEPT !.wrote = TRUE], StatusOK, r.deploy, {}, FALSE)
                  /\ req' = [req EXCEPT ![h] = IdleReq]
    /\ UNCHANGED <<deploys, cache>>

\* CreateDeployUpdate that undoes the persist when the pointer update fails: the
\* new Deploy is deleted from the Store.
CreateDeployUpdate_UndoesPersist(h) ==
    /\ req[h].pc = "activate"
    /\ \E fail \in BOOLEAN :
         LET r == req[h]
         IN  IF UpdateApplicationErr(r.appID, fail)
             THEN /\ resp' = Respond(r, StatusUnprocessableEntity, NoID, {}, fail)
                  /\ req' = [req EXCEPT ![h] = IdleReq]
                  /\ deploys' = [d \in DOMAIN deploys \ {r.deploy} |-> deploys[d]]
                  /\ UNCHANGED <<apps, lastWrite>>
             ELSE /\ apps' = UpdateApplication(r.appID, r.deploy)
                  /\ lastWrite' = [lastWrite EXCEPT ![r.appID] = r.deploy]
                  /\ resp' = Respond([r EXCEPT !.wrote = TRUE], StatusOK, r.deploy, {}, FALSE)
                  /\ req' = [req EXCEPT ![h] = IdleReq]
                  /\ UNCHANGED deploys
    /\ UNCHANGED cache

\* CreateDeployUpdate that evicts the cached module of the deploy it deposes.
CreateDeployUpdate_EvictsPrevious(h) ==
    /\ req[h].pc = "activate"
    /\ \E fail \in BOOLEAN :
         LET r == req[h]
         IN  IF UpdateApplicationErr(r.appID, fail)
             THEN /\ resp' = Respond(r, StatusUnprocessableEntity, NoID, {}, fail)
                  /\ req' = [req EXCEPT ![h] = IdleReq]
                  /\ UNCHANGED <<apps, lastWrite, cache>>
             ELSE /\ apps' = UpdateApplication(r.appID, r.deploy)
                  /\ lastWrite' = [lastWrite EXCEPT ![r.appID] = r.deploy]
                  /\ cache' = CacheDelete(apps[r.appID].ActiveDeployID, TRUE)
                  /\ resp' = Respond([r EXCEPT !.wrote = TRUE], StatusOK, r.deploy, {}, FALSE)
                  /\ req' = [req EXCEPT ![h] = IdleReq]
    /\ UNCHANGED deploys

\* store.UpdateApplication(appID, {ActiveDeployID: deploy.ID})
CreateDeployUpdate(h) ==
    /\ req[h].pc = "activate"
    /\ \E fail \in BOOLEAN :
         LET r == req[h]
         IN  IF UpdateApplicationErr(r.appID, fail)
             THEN /\ resp' = Respond(r, StatusUnprocessableEntity, NoID, {}, fail)
                  /\ req' = [req EXCEPT ![h] = IdleReq]
                  /\ UNCHANGED <<apps, lastWrite>>
             ELSE /\ apps' = UpdateApplication(r.appID, r.deploy)
                  /\ lastWrite' = [lastWrite EXCEPT ![r.appID] = r.deploy]
                  /\ resp' = Respond([r EXCEPT !.wrote = TRUE], StatusOK, r.deploy, {}, FALSE)
                  /\ req' = [req EXCEPT ![h] = IdleReq]
    /\ UNCHANGED <<deploys, cache>>

\* RollbackBegin that refuses a target that is already the active deploy.
RollbackBegin_RejectsActive(h) ==
    /\ Idle(h)
    /\ \E id \in AppIDs \cup {BadID} :
         LET r == [IdleReq EXCEPT !.kind = "rollback", !.appID = id]
         IN  IF id = BadID
             THEN /\ resp' = Respond(r, StatusBadRequest, NoID, {}, FALSE)
                  /\ UNCHANGED req
             ELSE \E fail \in BOOLEAN :
                  IF GetApplicationErr(id, fail)
                  THEN /\ resp' = Respond(r, StatusBadRequest, NoID, {}, fail)
                       /\ UNCHANGED req
                  ELSE \E target \in DeployIDs \cup {NoID, BadID} :
                       IF target = BadID
                       THEN /\ resp' = Respond([r EXCEPT !.cur = apps[id].ActiveDeployID],
                                               StatusBadRequest, NoID, {}, FALSE)
                            /\ UNCHANGED req
                       ELSE IF target = apps[id].ActiveDeployID
                       THEN /\ resp' = Respond([r EXCEPT !.arg = target,
                                                         !.cur = apps[id].ActiveDeployID],
                                               StatusBadRequest, NoID, {}, FALSE)
                            /\ UNCHANGED req
                       ELSE /\ req' = [req EXCEPT ![h] =
                                          [r EXCEPT !.pc = "getDeploy", !.arg = target,
                                                    !.cur = apps[id].ActiveDeployID]]
                            /\ resp' = NoResp
    /\ UNCHANGED <<apps, deploys, cache, lastWrite>>

\* ----------------------------------------------------- handleCreateRollback
\* uuid.Parse, store.GetApplication, currentDeployID := app.ActiveDeployID,
\* json.Decode of the body into CreateRollbackParams
RollbackBegin(h) ==
    /\ Idle(h)
    /\ \E id \in AppIDs \cup {BadID} :
         LET r == [IdleReq EXCEPT !.kind = "rollback", !.appID = id]
         IN  IF id = BadID
             THEN /\ resp' = Respond(r, StatusBadRequest, NoID, {}, FALSE)
                  /\ UNCHANGED req
             ELSE \E fail \in BOOLEAN :
                  IF GetApplicationErr(id, fail)
                  THEN /\ resp' = Respond(r, StatusBadRequest, NoID, {}, fail)
                       /\ UNCHANGED req
                  ELSE \E target \in DeployIDs \cup {NoID, BadID} :
                       IF target = BadID
                       THEN /\ resp' = Respond([r EXCEPT !.cur = apps[id].ActiveDeployID],
                                               StatusBadRequest, NoID, {}, FALSE)
                            /\ UNCHANGED req
                       ELSE /\ req' = [req EXCEPT ![h] =
                                          [r EXCEPT !.pc = "getDeploy", !.arg = target,
                                                    !.cur = apps[id].ActiveDeployID]]
                            /\ resp' = NoResp
    /\ UNCHANGED <<apps, deploys, cache, lastWrite>>

\* RollbackGetDeploy with the error of store.GetDeploy dropped: the rollback
\* goes on with the id of the request.
RollbackGetDeploy_IgnoresErr(h) ==
    /\ req[h].pc = "getDeploy"
    /\ \E fail \in BOOLEAN :
         LET r == req[h]
         IN  /\ req' = [req EXCEPT ![h] = [r EXCEPT !.pc = "update", !.deploy = r.arg]]
             /\ resp' = NoResp
    /\ UNCHANGED <<apps, deploys, cache, lastWrite>>

\* RollbackGetDeploy that re-binds the target Deploy to the application of the
\* request.
RollbackGetDeploy_Adopts(h) ==
    /\ req[h].pc = "getDeploy"
    /\ \E fail \in BOOLEAN :
         LET r == req[h]
         IN  IF GetDeployErr(r.arg, fail)
             THEN /\ resp' = Respond(r, StatusNotFound, NoID, {}, fail)
                  /\ req' = [req EXCEPT ![h] = IdleReq]
                  /\ UNCHANGED deploys
             ELSE /\ req' = [req EXCEPT ![h] = [r EXCEPT !.pc = "update",
                                                        !.deploy = deploys[r.arg].ID]]
                  /\ deploys' = [deploys EXCEPT ![r.arg].AppID = r.appID]
                  /\ resp' = NoResp
    /\ UNCHANGED <<apps, cache, lastWrite>>

\* RollbackGetDeploy that evicts the active deploy as soon as the target is
\* found, before the pointer update.
RollbackGetDeploy_EvictsEarly(h) ==
    /\ req[h].pc = "getDeploy"
    /\ \E fail \in BOOLEAN :
         LET r == req[h]
         IN  IF GetDeployErr(r.arg, fail)
             THEN /\ resp' = Respond(r, StatusNotFound, NoID, {}, fail)
                  /\ req' = [req EXCEPT ![h] = IdleReq]
                  /\ UNCHANGED cache
             ELSE /\ req' = [req EXCEPT ![h] = [r EXCEPT !.pc = "update",
                                                        !.deploy = deploys[r.arg].ID]]
                  /\ cache' = CacheDelete(r.cur, TRUE)
                  /\ resp' = NoResp
    /\ UNCHANGED <<apps, deploys, lastWrite>>

\* store.GetDeploy(params.DeployID)
RollbackGetDeploy(h) ==
    /\ req[h].pc = "getDeploy"
    /\ \E fail \in BOOLEAN :
         LET r == req[h]
         IN  IF GetDeployErr(r.arg, fail)
             THEN /\ resp' = Respond(r, StatusNotFound, NoID, {}, fail)
                  /\ req' = [req EXCEPT ![h] = IdleReq]
             ELSE /\ req' = [req EXCEPT ![h] = [r EXCEPT !.pc = "update",
                                              !.deploy = deploys[r.arg].ID]]
                  /\ resp' = NoResp
    /\ UNCHANGED <<apps, deploys, cache, lastWrite>>

\* updateParams built from the deploy that was active, not from the target.
RollbackUpdateParams_Stale(r) == r.cur

\* updateParams := storage.UpdateAppParams{ActiveDeployID: deploy.ID}
RollbackUpdateParams(r) == r.deploy

\* RollbackUpdate that updates the application the target Deploy belongs to, not
\* the application of the request.
RollbackUpdate_OnOwner(h) ==
    /\ req[h].pc = "update"
    /\ \E fail \in BOOLEAN :
         LET r == req[h]
             owner == deploys[r.deploy].AppID
         IN  IF UpdateApplicationErr(owner, fail)
             THEN /\ resp' = Respond(r, StatusBadRequest, NoID, {}, fail)
                  /\ req' = [req EXCEPT ![h] = IdleReq]
                  /\ UNCHANGED <<apps, lastWrite>>
             ELSE /\ apps' = UpdateApplication(owner, RollbackUpdateParams(r))
                  /\ lastWrite' = [lastWrite EXCEPT ![owner] = r.arg]
                  /\ req' = [req EXCEPT ![h] =
                                [r EXCEPT !.pc = "evict", !.wrote = TRUE,
                                          !.deposed = apps[owner].ActiveDeployID]]
                  /\ resp' = NoResp
    /\ UNCHANGED <<deploys, cache>>

\* RollbackUpdate that clears the pointer of the application when the update
\* fails.
RollbackUpdate_ClearsOnErr(h) ==
    /\ req[h].pc = "update"
    /\ \E fail \in BOOLEAN :
         LET r == req[h]
         IN  IF UpdateApplicationErr(r.appID, fail)
             THEN /\ resp' = Respond(r, StatusBadRequest, NoID, {}, fail)
                  /\ req' = [req EXCEPT ![h] = IdleReq]
                  /\ apps' = IF r.appID \in DOMAIN apps
                             THEN UpdateApplication(r.appID, NoID) ELSE apps
                  /\ UNCHANGED lastWrite
             ELSE /\ apps' = UpdateApplication(r.appID, RollbackUpdateParams(r))
                  /\ lastWrite' = [lastWrite EXCEPT ![r.appID] = r.arg]
                  /\ req' = [req EXCEPT ![h] =
                                [r EXCEPT !.pc = "evict", !.wrote = TRUE,
                                          !.deposed = apps[r.appID].ActiveDeployID]]
                  /\ resp' = NoResp
    /\ UNCHANGED <<deploys, cache>>

\* store.UpdateApplication(appID, updateParams)
RollbackUpdate(h) ==
    /\ req[h].pc = "update"
    /\ \E fail \in BOOLEAN :
         LET r == req[h]
         IN  IF UpdateApplicationErr(r.appID, fail)
             THEN /\ resp' = Respond(r, StatusBadRequest, NoID, {}, fail)
                  /\ req' = [req EXCEPT ![h] = IdleReq]
                  /\ UNCHANGED <<apps, lastWrite>>
             ELSE /\ apps' = UpdateApplication(r.appID, RollbackUpdateParams(r))
                  /\ lastWrite' = [lastWrite EXCEPT ![r.appID] = r.arg]
                  /\ req' = [req EXCEPT ![h] =
                                [r EXCEPT !.pc = "evict", !.wrote = TRUE,
                                          !.deposed = apps[r.appID].ActiveDeployID]]
                  /\ resp' = NoResp
    /\ UNCHANGED <<deploys, cache>>

\* RollbackEvict that evicts the deploy rolled back to, not the one deposed.
RollbackEvict_WrongKey(h) ==
    /\ req[h].pc = "evict"
    /\ LET r == req[h]
       IN  \E ok \in BOOLEAN :
           /\ cache' = CacheDelete(r.deploy, ok)
           /\ resp' = [Respond(r, StatusOK, r.deploy, {r.deploy}, FALSE)
                          EXCEPT !.lost = (~ok /\ r.deploy \in cache)]
           /\ req' = [req EXCEPT ![h] = IdleReq]
    /\ UNCHANGED <<apps, deploys, lastWrite>>

\* RollbackEvict that also deletes the deposed Deploy from the Store.
RollbackEvict_DeletesDeploy(h) ==
    /\ req[h].pc = "evict"
    /\ LET r == req[h]
       IN  \E ok \in BOOLEAN :
           /\ cache' = CacheDelete(r.cur, ok)
           /\ deploys' = [d \in DOMAIN deploys \ {r.cur} |-> deploys[d]]
           /\ resp' = [Respond(r, StatusOK, r.deploy, {r.cur}, FALSE)
                          EXCEPT !.lost = (~ok /\ r.cur \in cache)]
           /\ req' = [req EXCEPT ![h] = IdleReq]
    /\ UNCHANGED <<apps, lastWrite>>

\* RollbackEvict that answers an error when the eviction failed.
RollbackEvict_PropagatesCacheError(h) ==
    /\ req[h].pc = "evict"
    /\ LET r == req[h]
       IN  \E ok \in BOOLEAN :
           /\ cache' = CacheDelete(r.cur, ok)
           /\ resp' = [Respond(r, IF ok THEN StatusOK ELSE StatusBadRequest,
                               IF ok THEN r.deploy ELSE NoID, {r.cur}, FALSE)
                          EXCEPT !.lost = (~ok /\ r.cur \in cache)]
           /\ req' = [req EXCEPT ![h] = IdleReq]
    /\ UNCHANGED <<apps, deploys, lastWrite>>

\* s.cache.Delete(currentDeployID); writeJSON(200, {"deploy": deploy.ID})
RollbackEvict(h) ==
    /\ req[h].pc = "evict"
    /\ LET r == req[h]
       IN  \E ok \in BOOLEAN :
           /\ cache' = CacheDelete(r.cur, ok)
           /\ resp' = [Respond(r, StatusOK, r.deploy, {r.cur}, FALSE)
                          EXCEPT !.lost = (~ok /\ r.cur \in cache)]
           /\ req' = [req EXCEPT ![h] = IdleReq]
    /\ UNCHANGED <<apps, deploys, lastWrite>>

\* ------------------------------------------------------------ the runtime
\* The runtime compiles a deploy's blob on first use and caches the module
\* under the deploy's id.
CachePut ==
    /\ \E d \in DOMAIN deploys :
         /\ d \notin cache
         /\ cache' = cache \cup {d}
    /\ resp' = NoResp
    /\ UNCHANGED <<apps, deploys, req, lastWrite>>

Next ==
    \/ \E h \in Handlers :
        \/ handleCreateApp(h)
        \/ handleGetApplication(h)
        \/ CreateDeployBegin(h)
        \/ CreateDeployPersist(h)
        \/ CreateDeployUpdate(h)
        \/ RollbackBegin(h)
        \/ RollbackGetDeploy(h)
        \/ RollbackUpdate(h)
        \/ RollbackEvict(h)
    \/ CachePut

Spec == Init /\ [][Next]_vars

\* Requests on one application served one after the other (requests on different
\* applications still interleave): the runs in which no other operation on the
\* application is interleaved with a request.
InFlight(h) == req[h].pc # "idle"

OnePerApp ==
    \A g, h \in Handlers :
        (g # h /\ InFlight(g) /\ InFlight(h)) => req[g].appID # req[h].appID

NextPerApp ==
    \/ \E h \in Handlers :
        \/ handleCreateApp(h) /\ OnePerApp'
        \/ handleGetApplication(h) /\ OnePerApp'
        \/ CreateDeployBegin(h) /\ OnePerApp'
        \/ CreateDeployPersist(h) /\ OnePerApp'
        \/ CreateDeployUpdate(h) /\ OnePerApp'
        \/ RollbackBegin(h) /\ OnePerApp'
        \/ RollbackGetDeploy(h) /\ OnePerApp'
        \/ RollbackUpdate(h) /\ OnePerApp'
        \/ RollbackEvict(h) /\ OnePerApp'
    \/ CachePut /\ OnePerApp'

PerAppSpec == Init /\ [][NextPerApp]_vars

\* ======================================================================
\* Properties
\* ======================================================================

\* The Deploy d is in the Store and belongs to application a.
Owns(a, d) == d \in DOMAIN deploys /\ deploys[d].AppID = a

AllIdle == \A h \in Handlers : ~InFlight(h)

\* C1: in every reachable state an Application whose active_deploy_id is set
\* points to a Deploy of the Store whose application_id is that Application's id.
C1_ActiveDeployIsOwned ==
    \A a \in DOMAIN apps :
        apps[a].ActiveDeployID # NoID => Owns(a, apps[a].ActiveDeployID)

\* C2: a rollback of application A to an existing Deploy of another application
\* updates nothing in the Store, evicts nothing, and (the Store not failing) is
\* answered with the validation error, 400.
C2_ForeignTargetRejected ==
    (/\ resp.kind = "rollback"
     /\ resp.at # "idle"
     /\ resp.arg \in DOMAIN deploys
     /\ deploys[resp.arg].AppID # resp.appID)
    => /\ ~resp.wrote
       /\ resp.evicted = {}
       /\ ~resp.failed => resp.status = StatusBadRequest

\* C3: under every interleaving of create_deploy and rollback calls on one
\* application, active_deploy_id is the id that the call whose pointer update
\* was linearized last was asked to activate (unset when no call has updated
\* it): in every state, so also once all calls have finished.
C3_LastLinearizedWriteWins ==
    \A a \in DOMAIN apps : apps[a].ActiveDeployID = lastWrite[a]

\* Two calls updated the pointer of one application concurrently, all calls have
\* finished, and the call that returned last was not the one linearized last.
C3_Witness ==
    /\ AllIdle
    /\ resp.kind = "rollback"
    /\ resp.status = StatusOK
    /\ resp.wrote
    /\ apps[resp.appID].ActiveDeployID # resp.arg
    /\ apps[resp.appID].ActiveDeployID # resp.cur

\* C4: with D1 and D2 deploys of A and D2 active, rollback(A, D1) with no other
\* operation on A interleaved (the Store and the Cache not failing) returns D1, leaves
\* A.active_deploy_id = D1 and leaves no Cache entry for D2.
C4_RollbackCorrect ==
    (/\ resp.kind = "rollback"
     /\ ~resp.failed
     /\ ~resp.lost
     /\ resp.arg # resp.cur
     /\ Owns(resp.appID, resp.arg)
     /\ Owns(resp.appID, resp.cur))
    => /\ resp.status = StatusOK
       /\ resp.body = resp.arg
       /\ apps[resp.appID].ActiveDeployID = resp.arg
       /\ resp.cur \notin cache
       /\ resp.evicted = {resp.cur}

C4_Witness ==
    /\ resp.kind = "rollback"
    /\ resp.status = StatusOK
    /\ resp.arg # resp.cur
    /\ Owns(resp.appID, resp.arg)
    /\ Owns(resp.appID, resp.cur)
    /\ resp.arg \in cache
    /\ ~resp.lost

\* C5: in the state in which create_deploy has returned deploy D with success, a
\* get of the application answers 200 with active_deploy_id = D.id.
C5_CreateDeployActivates ==
    (resp.kind = "createDeploy" /\ resp.status = StatusOK)
    => /\ resp.body = resp.deploy
       /\ resp.deploy \in DOMAIN deploys
       /\ GetApplicationResponse(resp.appID, FALSE).status = StatusOK
       /\ GetApplicationResponse(resp.appID, FALSE).body = resp.body

\* A second deploy of an application was created and has become the active one.
C5_Witness ==
    /\ resp.kind = "createDeploy"
    /\ resp.status = StatusOK
    /\ \E d \in DOMAIN deploys : d # resp.deploy /\ Owns(resp.appID, d)
    /\ apps[resp.appID].ActiveDeployID = resp.deploy

\* C6: a Deploy that is in the Store stays in the Store, with the same payload
\* and application_id, across every step of every operation.
C6_DeploysAppendOnly ==
    [][\A d \in DOMAIN deploys : d \in DOMAIN deploys' /\ deploys'[d] = deploys[d]]_vars

\* Deploys D1 then D2 of one application are both in the Store after a rollback
\* from D2 to D1 has succeeded.
C6_Witness ==
    /\ resp.kind = "rollback"
    /\ resp.status = StatusOK
    /\ resp.arg # resp.cur
    /\ Owns(resp.appID, resp.arg)
    /\ Owns(resp.appID, resp.cur)
    /\ resp.arg < resp.cur

\* C7: the step of a rollback that looks up a target id no Deploy of the Store
\* has answers 404 and ends the rollback; it changes no Application and evicts
\* nothing.
C7_UnknownTarget ==
    [][\A h \in Handlers :
         (req[h].pc = "getDeploy" /\ req[h].arg \notin DOMAIN deploys /\ req'[h] # req[h])
         => /\ req'[h] = IdleReq
            /\ resp'.kind = "rollback"
            /\ resp'.status = StatusNotFound
            /\ resp'.evicted = {}
            /\ ~resp'.wrote
            /\ apps' = apps
            /\ cache' = cache]_vars

\* A rollback of an application that has an active deploy, to an id that is no
\* Deploy's, was answered 404 while that deploy is cached.
C7_Witness ==
    /\ resp.kind = "rollback"
    /\ resp.at = "getDeploy"
    /\ resp.arg \in DeployIDs \ DOMAIN deploys
    /\ resp.status = StatusNotFound
    /\ resp.cur # NoID
    /\ apps[resp.appID].ActiveDeployID = resp.cur
    /\ resp.cur \in cache

\* C8: a rollback on an application id that is not in the Store is answered 404,
\* as create_deploy and get answer it, and updates and evicts nothing.
C8_RollbackUnknownAppNotFound ==
    (/\ resp.kind = "rollback"
     /\ resp.appID \in AppIDs
     /\ resp.appID \notin DOMAIN apps)
    => /\ resp.status = StatusNotFound
       /\ ~resp.wrote
       /\ resp.evicted = {}

\* C9: the step of create_deploy in which the pointer update fails, after the
\* Deploy was persisted, answers an error, changes no Application, and leaves the
\* new Deploy in the Store.
C9_UpdateFailsDeployStays ==
    [][\A h \in Handlers :
         (req[h].pc = "activate" /\ req'[h] # req[h] /\ resp'.failed)
         => /\ resp'.kind = "createDeploy"
            /\ resp'.status = StatusUnprocessableEntity
            /\ apps' = apps
            /\ req[h].deploy \in DOMAIN deploys'
            /\ deploys'[req[h].deploy] =
                   NewDeploy(req[h].deploy, [ID |-> req[h].appID], req[h].arg)]_vars

\* create_deploy was answered an error by its pointer update; its Deploy is in
\* the Store and is not the application's active deploy.
C9_Witness ==
    /\ resp.kind = "createDeploy"
    /\ resp.at = "activate"
    /\ resp.failed
    /\ resp.status = StatusUnprocessableEntity
    /\ Owns(resp.appID, resp.deploy)
    /\ apps[resp.appID].ActiveDeployID # resp.deploy

\* This step is a step of a rollback that names application a.
RollbackStepOn(a) ==
    \/ \E h \in Handlers : req[h].kind = "rollback" /\ req[h].appID = a /\ req'[h] # req[h]
    \/ \E h \in Handlers : req[h].pc = "idle" /\ req'[h].kind = "rollback" /\ req'[h].appID = a
    \/ req' = req /\ resp'.kind = "rollback" /\ resp'.appID = a

\* C10: every step of a rollback, successful or not, leaves the Deploys of the
\* Store and the set of Applications as they are, and changes of the
\* Applications at most the active_deploy_id of the one it names.
C10_RollbackFrame ==
    [][\/ (deploys' = deploys /\ apps' = apps)
       \/ \A a \in AppIDs \cup {BadID} :
         \/ /\ deploys' = deploys
            /\ DOMAIN apps' = DOMAIN apps
            /\ \A b \in DOMAIN apps :
                 /\ b # a => apps'[b] = apps[b]
                 /\ apps'[b] = [apps[b] EXCEPT !.ActiveDeployID = apps'[b].ActiveDeployID]
         \/ ~RollbackStepOn(a)]_vars

\* A rollback has succeeded and changed the pointer while a second application
\* exists.
C10_Witness ==
    /\ resp.kind = "rollback"
    /\ resp.status = StatusOK
    /\ resp.arg # resp.cur
    /\ apps[resp.appID].ActiveDeployID = resp.arg
    /\ Cardinality(DOMAIN apps) = 2

\* C11: a step of a create_deploy or of a rollback on application A leaves the
\* record of every other application as it is, under any interleaving.
C11_OtherApplicationsUntouched ==
    [][\/ apps' = apps
       \/ \A h \in Handlers :
            (req'[h] # req[h] /\ req[h].kind \in {"createDeploy", "rollback"})
            => /\ DOMAIN apps' = DOMAIN apps
               /\ \A b \in DOMAIN apps : b # req[h].appID => apps'[b] = apps[b]]_vars

\* A create_deploy or rollback has updated the pointer of one application while
\* another application has an active deploy of its own.
C11_Witness ==
    /\ resp.kind \in {"createDeploy", "rollback"}
    /\ resp.status = StatusOK
    /\ resp.wrote
    /\ \E b \in DOMAIN apps :
         /\ b # resp.appID
         /\ apps[b].ActiveDeployID # NoID
         /\ apps[b].ActiveDeployID # apps[resp.appID].ActiveDeployID

\* C12: an Application enters the Store with active_deploy_id unset, and an unset
\* active_deploy_id becomes set only by the step of a create_deploy or rollback
\* on that application whose pointer update succeeds.
C12_UnsetUntilUpdate ==
    [][\/ apps' = apps
       \/ \A a \in DOMAIN apps' :
            IF a \notin DOMAIN apps
            THEN apps'[a].ActiveDeployID = NoID
            ELSE (apps[a].ActiveDeployID = NoID /\ apps'[a].ActiveDeployID # NoID)
                 => \E h \in Handlers :
                      /\ req[h].appID = a
                      /\ \/ req[h].pc = "activate" /\ req'[h] = IdleReq
                            /\ resp'.status = StatusOK /\ resp'.wrote
                         \/ req[h].pc = "update" /\ req'[h].pc = "evict"
                            /\ req'[h].wrote]_vars

\* An application is still without an active deploy after a create_deploy on it
\* persisted a Deploy and failed to update the pointer.
C12_Witness ==
    /\ resp.kind = "createDeploy"
    /\ resp.at = "activate"
    /\ resp.status # StatusOK
    /\ resp.deploy \in DOMAIN deploys
    /\ apps[resp.appID].ActiveDeployID = NoID

\* C13: the step of a rollback that follows its successful pointer update
\* answers 200 with the target deploy id and leaves every Application as it is,
\* whether the eviction removes an entry, fails, or finds none.
C13_SuccessIndependentOfCache ==
    [][\A h \in Handlers :
         (req[h].pc = "evict" /\ req'[h] # req[h])
         => /\ req'[h] = IdleReq
            /\ resp'.kind = "rollback"
            /\ resp'.status = StatusOK
            /\ resp'.body = req[h].arg
            /\ apps' = apps]_vars

\* A rollback was answered 200 with its target, which is the active deploy,
\* although its eviction failed and the deposed deploy is still cached.
C13_Witness ==
    /\ resp.kind = "rollback"
    /\ resp.status = StatusOK
    /\ resp.lost
    /\ resp.cur \in cache
    /\ resp.body = resp.arg
    /\ apps[resp.appID].ActiveDeployID = resp.arg

\* This step is a step of a create_deploy.
CreateDeployStep ==
    \/ \E h \in Handlers : req[h].kind = "createDeploy" /\ req'[h] # req[h]
    \/ \E h \in Handlers : req[h].pc = "idle" /\ req'[h].kind = "createDeploy"
    \/ req' = req /\ resp'.kind = "createDeploy"

\* C14: no step of a create_deploy, on a path that succeeds or one that fails,
\* changes the Cache.
C14_CreateDeployLeavesCache ==
    [][cache' = cache \/ ~CreateDeployStep]_vars

\* A create_deploy has succeeded on an application whose earlier deploy is
\* cached, and that entry is still in the Cache.
C14_Witness ==
    /\ resp.kind = "createDeploy"
    /\ resp.status = StatusOK
    /\ \E d \in cache : d # resp.deploy /\ Owns(resp.appID, d)

\* C15: in the state a successful pointer update of create_deploy leaves,
\* the same UpdateApplication(app_id, {active_deploy_id: D}) succeeds again and
\* yields the same Store state.
C15_RepointIdempotent ==
    (resp.kind = "createDeploy" /\ resp.status = StatusOK)
    => /\ ~UpdateApplicationErr(resp.appID, FALSE)
       /\ UpdateApplication(resp.appID, resp.deploy) = apps

\* The first deploy of an application has just been made active: the first
\* update changed the pointer from unset.
C15_Witness ==
    /\ resp.kind = "createDeploy"
    /\ resp.status = StatusOK
    /\ resp.wrote
    /\ \A d \in DOMAIN deploys : Owns(resp.appID, d) => d = resp.deploy

\* C16: an entry leaves the Cache, and cache.Delete is called, only in the step
\* of a rollback that comes after its own successful pointer update; a rollback
\* that fails at any step evicts nothing.
C16_EvictOnlyAfterUpdate ==
    [][\/ (cache \subseteq cache' /\ resp'.evicted = {})
       \/ \E h \in Handlers :
            /\ req[h].kind = "rollback"
            /\ req[h].pc = "evict"
            /\ req[h].wrote
            /\ req'[h] = IdleReq
            /\ resp'.status = StatusOK]_vars

\* A rollback failed at its pointer update and the deploy it would have deposed
\* is still cached.
C16_Witness ==
    /\ resp.kind = "rollback"
    /\ resp.at = "update"
    /\ resp.failed
    /\ resp.status = StatusBadRequest
    /\ resp.evicted = {}
    /\ resp.cur \in cache

\* C17: under any interleaving, the id a successful rollback passes to
\* cache.Delete is the value active_deploy_id held immediately before that
\* rollback's own pointer update.
C17_EvictsDeposed ==
    (resp.kind = "rollback" /\ resp.status = StatusOK)
    => resp.evicted = {resp.deposed}

\* C18: with no overlapping request on the application and neither the Store
\* nor the eviction failing, a rollback to the existing Deploy D that is already
\* the active deploy answers 200 with D, leaves active_deploy_id = D, and the
\* Cache holds no entry keyed D afterwards.
C18_RollbackToActive ==
    (/\ resp.kind = "rollback"
     /\ resp.arg \in DOMAIN deploys
     /\ resp.cur = resp.arg
     /\ ~resp.failed
     /\ ~resp.lost)
    => /\ resp.status = StatusOK
       /\ resp.body = resp.arg
       /\ apps[resp.appID].ActiveDeployID = resp.arg
       /\ resp.evicted = {resp.arg}
       /\ resp.arg \notin cache

\* A rollback to the deploy that was already active has been answered.
C18_Witness ==
    /\ resp.kind = "rollback"
    /\ resp.status = StatusOK
    /\ resp.arg \in DOMAIN deploys
    /\ resp.cur = resp.arg
    /\ resp.deposed = resp.arg
    /\ resp.evicted = {resp.arg}
    /\ ~resp.lost
    /\ apps[resp.appID].ActiveDeployID = resp.arg

\* C19: a set active_deploy_id is always the id of a Deploy of the Store, and
\* no step unsets the pointer of an Application on which it is set.
C19_SetStaysSet ==
    /\ [](\A a \in DOMAIN apps :
            apps[a].ActiveDeployID # NoID => apps[a].ActiveDeployID \in DOMAIN deploys)
    /\ [][\A a \in DOMAIN apps :
            apps[a].ActiveDeployID # NoID
            => a \in DOMAIN apps' /\ apps'[a].ActiveDeployID # NoID]_vars

\* A rollback has moved a set pointer from one existing Deploy to another.
C19_Witness ==
    /\ resp.kind = "rollback"
    /\ resp.status = StatusOK
    /\ resp.deposed \in DOMAIN deploys
    /\ resp.deposed # resp.arg
    /\ apps[resp.appID].ActiveDeployID = resp.arg
    /\ resp.arg \in DOMAIN deploys

\* C20: every id a rollback on Application A passes to cache.Delete is the
\* unset value or the id of a Deploy whose application_id is A.
C20_EvictedIsOwn ==
    resp.kind = "rollback"
    => \A d \in resp.evicted : d = NoID \/ Owns(resp.appID, d)

====
